---- MODULE Spec2Model ----
(***************************************************************************)
(* Model of server/main.py (Beat Studio backend): the /api/separate        *)
(* handler and its helpers resolve_demucs_bin, resolve_ffmpeg_bin,         *)
(* maybe_transcode_to_wav, run_demucs and zip_stems.                       *)
(*                                                                         *)
(* Representation.                                                         *)
(*  - A file name is the sequence of its dot-separated pieces, i.e. what   *)
(*    Python's name.split(".") returns: "song.wav" is <<"song","wav">>,    *)
(*    ".." is <<"","","">>, "." is <<"","">>, "" is <<"">>.                *)
(*  - A client-supplied filename is the sequence of its "/"-separated      *)
(*    components, each a file name: "../up/a.ogg" is                       *)
(*    << <<"","","">>, <<"up">>, <<"a","ogg">> >>.                         *)
(*  - A path inside a Workspace is the sequence of components below the    *)
(*    Workspace directory; << >> is the Workspace directory itself.        *)
(*  - None is the string "<None>" for environment values and the empty     *)
(*    sequence for the optional upload.                                    *)
(***************************************************************************)
EXTENDS Integers, Sequences, FiniteSets, TLC

VARIABLES
    env,         \* process environment and installed binaries (fixed per run)
    reqs,        \* the requests the hosting server delivers in this run
    tmpfs,       \* the temporary directories: name -> directory contents
    outside,     \* the files written outside the Workspaces
    pc,          \* request -> position of its handler
    method,      \* request -> HTTP method
    file,        \* request -> upload (NoFile or a client filename)
    ws,          \* request -> name of its Workspace (tmpdir)
    input_path,  \* request -> input_path, relative to the Workspace
    processed,   \* request -> processed_input, relative to the Workspace
    ffmpeg,      \* request -> its transcoder child process
    demucs,      \* request -> its separation-engine child process
    outcome,     \* request -> response
    log          \* request -> the steps taken for it, in order

vars == <<env, reqs, tmpfs, outside, pc, method, file, ws, input_path, processed,
          ffmpeg, demucs, outcome, log>>

-----------------------------------------------------------------------------
(* Bounds and input sets *)

\* Number of files other than the four stems the engine may leave behind.
MaxExtra == 1

Req == {1, 2}

TmpOrder == <<"tmpa", "tmpb">>

TmpNames == {TmpOrder[i] : i \in 1..Len(TmpOrder)}

None == "<None>"

NoFile == << >>

DotDot == <<"", "", "">>

EmptyFilename == << <<"">> >>

Filenames ==
    { EmptyFilename,
      << <<"song", "wav">> >>,
      << <<"take", "MP3">> >>,
      << <<"memo", "m4a">> >>,
      << <<"mix", "flac">> >>,
      << DotDot, <<"up">>, <<"live", "set", "ogg">> >>,
      << <<"clip", "webm">> >>,
      << <<"separated">> >>,
      << DotDot >> }

Uploads == {NoFile} \cup Filenames

Methods == {"POST", "OPTIONS"}

Envs ==
    [ DEMUCS_BIN   : {None, "", "/opt/demucs"},
      which_demucs : {None, "/usr/bin/demucs"},
      venv_unix    : BOOLEAN,
      venv_win     : BOOLEAN,
      FFMPEG_BIN   : {None, "", "/opt/ffmpeg"},
      which_ffmpeg : {None, "/usr/bin/ffmpeg"},
      venv_ffmpeg  : BOOLEAN ]

-----------------------------------------------------------------------------
(* Program constants *)

DEMUCS_MODEL == "htdemucs"

STEMS == <<"drums", "bass", "vocals", "other">>

ACCEPTED == {"wav", "flac", "mp3", "m4a", "ogg"}

VENV_UNIX == "server/.venv/bin/demucs"

VENV_WIN == "server/.venv/Scripts/demucs.exe"

OUTPUT_ROOT == <<"separated">>

-----------------------------------------------------------------------------
(* Python values *)

\* Truthiness of an optional string: None and "" are falsy.
Truthy(s) == s # None /\ s # ""

\* str.lower(), tabulated for the extensions in use (other strings are
\* lower-case already).
Lower(s) ==
    CASE s \in {"WAV", "Wav"} -> "wav"
      [] s \in {"FLAC", "Flac"} -> "flac"
      [] s \in {"MP3", "Mp3"} -> "mp3"
      [] s \in {"M4A", "M4a"} -> "m4a"
      [] s \in {"OGG", "Ogg"} -> "ogg"
      [] s \in {"WEBM", "WebM"} -> "webm"
      [] OTHER -> s

\* pathlib: the parts of a client filename ("" and "." components vanish).
PathParts(fn) == SelectSeq(fn, LAMBDA c : c # <<"">> /\ c # <<"", "">>)

\* Path(filename).name: the last part, "" when there is none.
PathName(fn) ==
    LET p == PathParts(fn)
    IN  IF p = << >> THEN <<"">> ELSE p[Len(p)]

\* tmp_path / name: joining "" yields the directory itself.
JoinWs(name) == IF name = <<"">> THEN << >> ELSE <<name>>

\* Mutant: the client's filename is joined to the Workspace as it is.
upload_path_raw(fn) == PathParts(fn)

\* Line 142: tmp_path / Path(file.filename).name.
upload_path(fn) == JoinWs(PathName(fn))

\* PurePath.suffix without its leading dot ("" when there is none):
\* i = name.rfind("."); the suffix is name[i:] when 0 < i < len(name) - 1.
Suffix(name) ==
    LET n == Len(name)
    IN  IF n >= 2 /\ name[n] # "" /\ ~(n = 2 /\ name[1] = "")
        THEN name[n] ELSE ""

\* PurePath.stem: the name without its suffix.
Stem(name) ==
    IF Suffix(name) # "" THEN SubSeq(name, 1, Len(name) - 1) ELSE name

\* The final component of a Workspace path that has one.
Name(path) == path[Len(path)]

\* f"{stem}.wav" and f"{stem}_stems.zip" as names.
WavName(stem) == Append(stem, "wav")

ZipName(stem) ==
    SubSeq(stem, 1, Len(stem) - 1) \o <<stem[Len(stem)] \o "_stems", "zip">>

-----------------------------------------------------------------------------
(* Binary resolution *)

\* Mutant: the PATH is searched before the override is looked at.
resolve_demucs_bin_path_first(e) ==
    IF Truthy(e.which_demucs) THEN e.which_demucs
    ELSE IF Truthy(e.DEMUCS_BIN) THEN e.DEMUCS_BIN
    ELSE IF e.venv_unix THEN VENV_UNIX
    ELSE IF e.venv_win THEN VENV_WIN
    ELSE None

\* Mutant: falls back to the bare command name instead of failing.
resolve_demucs_bin_default(e) ==
    IF Truthy(e.DEMUCS_BIN) THEN e.DEMUCS_BIN
    ELSE IF Truthy(e.which_demucs) THEN e.which_demucs
    ELSE IF e.venv_unix THEN VENV_UNIX
    ELSE IF e.venv_win THEN VENV_WIN
    ELSE "demucs"

resolve_demucs_bin(e) ==
    IF Truthy(e.DEMUCS_BIN) THEN e.DEMUCS_BIN
    ELSE IF Truthy(e.which_demucs) THEN e.which_demucs
    ELSE IF e.venv_unix THEN VENV_UNIX
    ELSE IF e.venv_win THEN VENV_WIN
    ELSE None

\* Mutant: falls back to the bare command name instead of None.
resolve_ffmpeg_bin_default(e) ==
    IF Truthy(e.FFMPEG_BIN) THEN e.FFMPEG_BIN
    ELSE IF Truthy(e.which_ffmpeg) THEN e.which_ffmpeg
    ELSE "ffmpeg"

resolve_ffmpeg_bin(e) ==
    IF Truthy(e.FFMPEG_BIN) THEN e.FFMPEG_BIN
    ELSE IF Truthy(e.which_ffmpeg) THEN e.which_ffmpeg
    ELSE None

-----------------------------------------------------------------------------
(* Responses *)

NoOutcome ==
    [kind |-> "none", status |-> 0, error |-> "", entries |-> << >>,
     download |-> << >>, model |-> ""]

Ack == [NoOutcome EXCEPT !.kind = "ack", !.status = 200]

\* raise HTTPException(status_code, detail); the error names are the spec's
\* taxonomy for the details the code raises.
HTTPError(status, error) ==
    [NoOutcome EXCEPT !.kind = "error", !.status = status, !.error = error]

\* An exception the handler does not raise itself: the server answers 500.
Unexpected(exc) == HTTPError(500, exc)

\* Mutant: the download is named after the upload alone.
StreamingResponse_plain_name(entries, stem) ==
    [kind |-> "archive", status |-> 200, error |-> "", entries |-> entries,
     download |-> Append(stem, "zip"), model |-> DEMUCS_MODEL]

StreamingResponse(entries, stem) ==
    [kind |-> "archive", status |-> 200, error |-> "", entries |-> entries,
     download |-> ZipName(stem), model |-> DEMUCS_MODEL]

-----------------------------------------------------------------------------
(* File system and child processes *)

NoDir == [exists |-> FALSE, files |-> {}, deps |-> {}]

EmptyDir == [exists |-> TRUE, files |-> {}, deps |-> {}]

\* A child process: its state, exit code, command and, once it has exited,
\* what it did to the file system (did).
NoProc == [state |-> "none", rc |-> -1, bin |-> None, arg |-> << >>, did |-> {}]

Running(bin, arg) ==
    [state |-> "running", rc |-> -1, bin |-> bin, arg |-> arg, did |-> {}]

\* Mutant: the handler goes on without waiting for the child.
communicate_nowait(p) == p.state \in {"running", "exited"}

\* await proc.communicate() returns once the child has exited.
communicate(p) == p.state = "exited"

\* tempfile.TemporaryDirectory().__exit__: the directory and all below it go.
Cleanup(fs, t) == [fs EXCEPT ![t] = NoDir]

\* TemporaryDirectory.__exit__ -> shutil.rmtree(name): with no writer below
\* the directory ("none") it is removed.  While a child of the request still
\* writes below it, the removal either goes through, or an rmdir meets an
\* entry made after the listing and raises OSError (ENOTEMPTY) and the
\* directory stays.  The transcoder writes one file into the directory itself:
\* only the last rmdir can fail, every listed file being unlinked by then.
\* The engine writes into directories it makes below: the rmdir of one of
\* those can fail, with the listed files the removal had not reached yet
\* still there.
rmtree(dir, writer) ==
    {NoDir} \cup
    (CASE writer = "demucs" ->
            {[dir EXCEPT !.files = kept] : kept \in SUBSET dir.files}
       [] writer = "ffmpeg" -> {[dir EXCEPT !.files = {}]}
       [] OTHER -> {})

\* Mutant: the directory name is not checked for being in use.
mkdtemp_any(fs, used) == TmpNames

\* tempfile.mkdtemp: a random name that does not exist; names already handed
\* out (used) are not drawn again.  The names of the model stand for the
\* directories in the order of their making: the next one is the first name
\* that is free.
mkdtemp(fs, used) ==
    LET free == {i \in 1..Len(TmpOrder) : ~fs[TmpOrder[i]].exists /\ TmpOrder[i] \notin used}
    IN  {TmpOrder[i] : i \in {j \in free : \A k \in free : j <= k}}

\* input_path.write_bytes(raw): open(path, "wb") fails on a directory.
CanWrite(path) == Len(path) = 1 /\ path[1] # DotDot

\* A path that leaves the Workspace through ".." and names a file there.
LeavesWs(path) ==
    Len(path) >= 2 /\ path[1] = DotDot /\ path[Len(path)] # DotDot

\* Mutant: only .wav is passed through.
maybe_transcode_needed_wav_only(path) == Lower(Suffix(Name(path))) # "wav"

\* Line 74, negated: the suffix is not one of the accepted ones.
maybe_transcode_needed(path) == Lower(Suffix(Name(path))) \notin ACCEPTED

\* Mutant: only the exit code is looked at.
transcode_fails_rc_only(p, dir) == p.rc # 0

\* Line 90: the transcoder failed or left no output file.
transcode_fails(p, dir) == p.rc # 0 \/ Name(p.arg.output) \notin dir.files

output_path(path) == <<WavName(Stem(Name(path)))>>

song_dir(output_root, path) ==
    output_root \o << <<DEMUCS_MODEL>>, Stem(Name(path)) >>

StemNames == {<<STEMS[i], "wav">> : i \in 1..Len(STEMS)}

ExtraNames == {<<"extra" \o ToString(i), "wav">> : i \in 1..MaxExtra}

\* What the separation engine, a black box, may do before it exits.
DemucsOutcomes(arg) ==
    LET expected == arg.out \o << <<arg.model>>, Stem(Name(arg.input)) >>
        elsewhere == arg.out \o << <<arg.model>>, <<"untitled">> >>
    IN  { [rc |-> 1, deps |-> {}],
          [rc |-> 1, deps |-> {[path |-> expected, entries |-> StemNames]}],
          [rc |-> 0, deps |-> {}],
          [rc |-> 0, deps |-> {[path |-> elsewhere, entries |-> StemNames]}] }
        \cup
        { [rc |-> 0, deps |-> {[path |-> expected, entries |-> S]}] :
            S \in SUBSET (StemNames \cup ExtraNames) }

DirExists(dir, path) == \E d \in dir.deps : d.path = path

DirEntries(dir, path) == UNION {d.entries : d \in {x \in dir.deps : x.path = path}}

\* Mutant: the output directory is not checked.
run_demucs_fails_rc_only(p, dir, stem_dir) == p.rc # 0

\* run_demucs raises after the engine has exited.
run_demucs_fails(p, dir, stem_dir) == p.rc # 0 \/ ~DirExists(dir, stem_dir)

\* Mutant: found_any is set before the loop.
zip_stems_found_any_true(entries) ==
    LET names == [i \in 1..Len(STEMS) |-> <<STEMS[i], "wav">>]
    IN  [names |-> SelectSeq(names, LAMBDA n : n \in entries), found_any |-> TRUE]

\* Mutant: the loop stops one stem short.
zip_stems_short(entries) ==
    LET names == [i \in 1..Len(STEMS) - 1 |-> <<STEMS[i], "wav">>]
        added == SelectSeq(names, LAMBDA n : n \in entries)
    IN  [names |-> added, found_any |-> added # << >>]

\* zip_stems over the entries of stem_dir: the arcnames in the order written,
\* and found_any (it raises when found_any is false).
zip_stems(entries) ==
    LET names == [i \in 1..Len(STEMS) |-> <<STEMS[i], "wav">>]
        added == SelectSeq(names, LAMBDA n : n \in entries)
    IN  [names |-> added, found_any |-> added # << >>]

-----------------------------------------------------------------------------
(* The handler *)

Init ==
    /\ env \in Envs
    /\ reqs = {1}
    /\ tmpfs = [t \in TmpNames |-> NoDir]
    /\ outside = {}
    /\ pc = [r \in Req |-> "idle"]
    /\ method = [r \in Req |-> "POST"]
    /\ file = [r \in Req |-> NoFile]
    /\ ws = [r \in Req |-> None]
    /\ input_path = [r \in Req |-> << >>]
    /\ processed = [r \in Req |-> << >>]
    /\ ffmpeg = [r \in Req |-> NoProc]
    /\ demucs = [r \in Req |-> NoProc]
    /\ outcome = [r \in Req |-> NoOutcome]
    /\ log = [r \in Req |-> << >>]

\* The handler leaves: the with-block (if entered) is exited, then the response
\* or the exception reaches the caller.
Finish(r, out, held, events) ==
    /\ pc' = [pc EXCEPT ![r] = "done"]
    /\ outcome' = [outcome EXCEPT ![r] = out]
    /\ tmpfs' = IF held THEN Cleanup(tmpfs, ws[r]) ELSE tmpfs
    /\ log' = [log EXCEPT ![r] =
                 @ \o events \o (IF held THEN <<"ws_delete">> ELSE << >>)
                   \o <<"respond">>]

\* The hosting server calls separate(request, file).
Request(r) ==
    /\ r \in reqs
    /\ pc[r] = "idle"
    /\ \E m \in Methods, f \in Uploads :
         /\ method' = [method EXCEPT ![r] = m]
         /\ file' = [file EXCEPT ![r] = f]
    /\ pc' = [pc EXCEPT ![r] = "entry"]
    /\ UNCHANGED <<env, reqs, outside, tmpfs, ws, input_path, processed, ffmpeg, demucs,
                   outcome, log>>

\* Lines 134-143: the method and filename checks, then the Workspace.
Validate(r) ==
    /\ pc[r] = "entry"
    /\ IF method[r] = "OPTIONS"
       THEN /\ Finish(r, Ack, FALSE, << >>)
            /\ UNCHANGED <<ws, input_path>>
       ELSE IF file[r] = NoFile
       THEN \* None.filename
            /\ Finish(r, Unexpected("AttributeError"), FALSE, << >>)
            /\ UNCHANGED <<ws, input_path>>
       ELSE IF file[r] = EmptyFilename
       THEN /\ Finish(r, HTTPError(400, "InvalidRequestError"), FALSE, << >>)
            /\ UNCHANGED <<ws, input_path>>
       ELSE \E t \in mkdtemp(tmpfs, {ws[q] : q \in Req}) :
            /\ ws' = [ws EXCEPT ![r] = t]
            /\ tmpfs' = [tmpfs EXCEPT ![t] = EmptyDir]
            /\ input_path' = [input_path EXCEPT ![r] = upload_path(file[r])]
            /\ pc' = [pc EXCEPT ![r] = "persist"]
            /\ log' = [log EXCEPT ![r] = Append(@, "ws_create")]
            /\ UNCHANGED outcome
    /\ UNCHANGED <<env, reqs, outside, method, file, processed, ffmpeg, demucs>>

\* Lines 145-146: raw = await file.read(); input_path.write_bytes(raw).
Persist(r) ==
    /\ pc[r] = "persist"
    /\ IF CanWrite(input_path[r]) \/ LeavesWs(input_path[r])
       THEN \E written \in BOOLEAN :
              IF written
              THEN /\ IF CanWrite(input_path[r])
                      THEN /\ tmpfs' = [tmpfs EXCEPT ![ws[r]].files =
                                          @ \cup {Name(input_path[r])}]
                           /\ UNCHANGED outside
                      ELSE /\ outside' = outside \cup {input_path[r]}
                           /\ UNCHANGED tmpfs
                   /\ pc' = [pc EXCEPT ![r] = "transcode"]
                   /\ log' = [log EXCEPT ![r] = Append(@, "persist")]
                   /\ UNCHANGED outcome
              ELSE \* the read or the write raises (an I/O error)
                   /\ Finish(r, Unexpected("OSError"), TRUE, << >>)
                   /\ UNCHANGED outside
       ELSE \* the path is a directory, or lies in a directory that is missing
            /\ Finish(r, Unexpected("IsADirectoryError"), TRUE, << >>)
            /\ UNCHANGED outside
    /\ UNCHANGED <<env, reqs, method, file, ws, input_path, processed, ffmpeg, demucs>>

\* Lines 73-88: maybe_transcode_to_wav up to the spawn of the transcoder.
Transcode(r) ==
    /\ pc[r] = "transcode"
    /\ IF ~maybe_transcode_needed(input_path[r])
       THEN /\ processed' = [processed EXCEPT ![r] = input_path[r]]
            /\ pc' = [pc EXCEPT ![r] = "run_demucs"]
            /\ UNCHANGED <<tmpfs, ffmpeg, outcome, log>>
       ELSE LET bin == resolve_ffmpeg_bin(env)
            IN  IF ~Truthy(bin)
                THEN /\ Finish(r, HTTPError(500, "ConfigurationError"), TRUE,
                               <<"resolve_ffmpeg">>)
                     /\ UNCHANGED <<processed, ffmpeg>>
                ELSE \E started \in BOOLEAN :
                       IF started
                       THEN /\ ffmpeg' = [ffmpeg EXCEPT ![r] =
                                   Running(bin, [input |-> input_path[r],
                                                 output |-> output_path(input_path[r])])]
                            /\ pc' = [pc EXCEPT ![r] = "await_ffmpeg"]
                            /\ log' = [log EXCEPT ![r] =
                                         @ \o <<"resolve_ffmpeg", "spawn_ffmpeg">>]
                            /\ UNCHANGED <<tmpfs, processed, outcome>>
                       ELSE \* create_subprocess_exec raises (no such executable)
                            /\ Finish(r, Unexpected("OSError"), TRUE,
                                      <<"resolve_ffmpeg">>)
                            /\ UNCHANGED <<processed, ffmpeg>>
    /\ UNCHANGED <<env, reqs, outside, method, file, ws, input_path, demucs>>

\* The transcoder child exits, having written its output file or not.  It
\* makes no directory: in a Workspace that is gone nothing is left of the
\* file, and one written while a cancelled handler's removal ran may have gone
\* with what that removal took.
FfmpegExit(r) ==
    /\ ffmpeg[r].state = "running"
    /\ \E rc \in {0, 1}, wrote \in BOOLEAN, taken \in BOOLEAN :
         /\ taken => pc[r] = "cancelled"
         /\ ffmpeg' = [ffmpeg EXCEPT ![r].state = "exited", ![r].rc = rc,
                                    ![r].did = IF wrote
                                               THEN {Name(ffmpeg[r].arg.output)}
                                               ELSE {}]
         /\ tmpfs' = IF wrote /\ ~taken /\ tmpfs[ws[r]].exists
                     THEN [tmpfs EXCEPT ![ws[r]].files =
                             @ \cup {Name(ffmpeg[r].arg.output)}]
                     ELSE tmpfs
    /\ log' = [log EXCEPT ![r] = Append(@, "ffmpeg_exit")]
    /\ UNCHANGED <<env, reqs, outside, pc, method, file, ws, input_path, processed, demucs,
                   outcome>>

\* Lines 89-95: the handler resumes after the transcoder.
TranscodeResume(r) ==
    /\ pc[r] = "await_ffmpeg"
    /\ communicate(ffmpeg[r])
    /\ LET out == ffmpeg[r].arg.output
       IN  IF transcode_fails(ffmpeg[r], tmpfs[ws[r]])
           THEN /\ Finish(r, HTTPError(500, "TranscodeError"), TRUE, << >>)
                /\ UNCHANGED processed
           ELSE /\ processed' = [processed EXCEPT ![r] = out]
                /\ pc' = [pc EXCEPT ![r] = "run_demucs"]
                /\ UNCHANGED <<tmpfs, outcome, log>>
    /\ UNCHANGED <<env, reqs, outside, method, file, ws, input_path, ffmpeg, demucs>>

\* Lines 99-101: run_demucs up to the spawn of the separation engine.
RunDemucs(r) ==
    /\ pc[r] = "run_demucs"
    /\ LET bin == resolve_demucs_bin(env)
       IN  IF bin = None
           THEN /\ Finish(r, HTTPError(500, "ConfigurationError"), TRUE,
                          <<"resolve_demucs">>)
                /\ UNCHANGED demucs
           ELSE \E started \in BOOLEAN :
                  IF started
                  THEN /\ demucs' = [demucs EXCEPT ![r] =
                              Running(bin, [model |-> DEMUCS_MODEL,
                                            out |-> <<OUTPUT_ROOT>>,
                                            input |-> processed[r]])]
                       /\ pc' = [pc EXCEPT ![r] = "await_demucs"]
                       /\ log' = [log EXCEPT ![r] =
                                    @ \o <<"resolve_demucs", "spawn_demucs">>]
                       /\ UNCHANGED <<tmpfs, outcome>>
                  ELSE /\ Finish(r, Unexpected("OSError"), TRUE, <<"resolve_demucs">>)
                       /\ UNCHANGED demucs
    /\ UNCHANGED <<env, reqs, outside, method, file, ws, input_path, processed, ffmpeg>>

\* What a removal of the Workspace that ran while the engine was depositing
\* can leave of the engine's deposits: the directories made, or made again,
\* after the removal passed (any of them), each with the entries written
\* after it (any part of them, none included: a directory can be left empty).
SurvivingDeposits(deps) ==
    { {[x EXCEPT !.entries = part[x]] : x \in dirs} :
        dirs \in SUBSET deps,
        part \in {f \in [deps -> SUBSET UNION {x.entries : x \in deps}] :
                    \A x \in deps : f[x] \subseteq x.entries} }

\* The separation engine exits, having deposited what it deposited.  It makes
\* the directories it writes to, parents included.  Under a handler that
\* still awaits it, the Workspace holds all it deposited.  An engine outliving
\* a cancelled handler raced the removal of the Workspace: what it deposited
\* before the removal passed went with it, what it deposited afterwards is
\* there, in a directory made anew when the removal had gone through.  The
\* engine may also have made its output root (below the Workspace) after the
\* removal and nothing else (root): the Workspace is there again, with no
\* stem directory in it.
DemucsExit(r) ==
    /\ demucs[r].state = "running"
    /\ \E o \in DemucsOutcomes(demucs[r].arg) :
         /\ demucs' = [demucs EXCEPT ![r].state = "exited", ![r].rc = o.rc,
                                    ![r].did = o.deps]
         /\ IF pc[r] # "cancelled"
            THEN tmpfs' = [tmpfs EXCEPT ![ws[r]].deps = o.deps]
            ELSE \E left \in SurvivingDeposits(o.deps), root \in BOOLEAN :
                   tmpfs' = IF tmpfs[ws[r]].exists
                            THEN [tmpfs EXCEPT ![ws[r]].deps = left]
                            ELSE IF left # {} \/ root
                            THEN [tmpfs EXCEPT ![ws[r]] =
                                    [EmptyDir EXCEPT !.deps = left]]
                            ELSE tmpfs
    /\ log' = [log EXCEPT ![r] = Append(@, "demucs_exit")]
    /\ UNCHANGED <<env, reqs, outside, pc, method, file, ws, input_path, processed, ffmpeg,
                   outcome>>

\* Mutant: a failed separation is tried again.
DemucsResume_retry(r) ==
    /\ pc[r] = "await_demucs"
    /\ communicate(demucs[r])
    /\ LET dir == tmpfs[ws[r]]
           stem_dir == song_dir(<<OUTPUT_ROOT>>, processed[r])
           zipped == zip_stems(DirEntries(dir, stem_dir))
       IN  IF run_demucs_fails(demucs[r], dir, stem_dir)
           THEN /\ pc' = [pc EXCEPT ![r] = "run_demucs"]
                /\ UNCHANGED <<tmpfs, outcome, log>>
           ELSE IF ~zipped.found_any
           THEN Finish(r, HTTPError(500, "PackagingError"), TRUE, <<"package">>)
           ELSE Finish(r, StreamingResponse(zipped.names, Stem(Name(input_path[r]))),
                       TRUE, <<"package">>)
    /\ UNCHANGED <<env, reqs, outside, method, file, ws, input_path, processed, ffmpeg, demucs>>

\* Lines 102-113 and 151-157: the handler resumes after the engine, packages
\* the stems and returns the response.
DemucsResume(r) ==
    /\ pc[r] = "await_demucs"
    /\ communicate(demucs[r])
    /\ LET dir == tmpfs[ws[r]]
           stem_dir == song_dir(<<OUTPUT_ROOT>>, processed[r])
           zipped == zip_stems(DirEntries(dir, stem_dir))
       IN  IF run_demucs_fails(demucs[r], dir, stem_dir)
           THEN Finish(r, HTTPError(500, "SeparationError"), TRUE, << >>)
           ELSE IF ~zipped.found_any
           THEN Finish(r, HTTPError(500, "PackagingError"), TRUE, <<"package">>)
           ELSE Finish(r, StreamingResponse(zipped.names, Stem(Name(input_path[r]))),
                       TRUE, <<"package">>)
    /\ UNCHANGED <<env, reqs, outside, method, file, ws, input_path, processed, ffmpeg, demucs>>

\* The handling task is cancelled while suspended at an await: CancelledError
\* leaves the with-block; the children are left alone.  When the removal of
\* the Workspace fails against a child that still writes, the OSError of the
\* removal leaves the handler in place of CancelledError.
Cancel(r) ==
    /\ pc[r] \in {"persist", "await_ffmpeg", "await_demucs"}
    /\ pc' = [pc EXCEPT ![r] = "cancelled"]
    /\ \E left \in rmtree(tmpfs[ws[r]],
                          IF demucs[r].state = "running" THEN "demucs"
                          ELSE IF ffmpeg[r].state = "running" THEN "ffmpeg"
                          ELSE "none") :
         /\ tmpfs' = [tmpfs EXCEPT ![ws[r]] = left]
         /\ IF left.exists
            THEN /\ outcome' = [outcome EXCEPT ![r] = Unexpected("OSError")]
                 /\ log' = [log EXCEPT ![r] = Append(@, "ws_delete_failed")]
            ELSE /\ log' = [log EXCEPT ![r] = Append(@, "ws_delete")]
                 /\ UNCHANGED outcome
    /\ UNCHANGED <<env, reqs, outside, method, file, ws, input_path, processed, ffmpeg,
                   demucs>>

Next ==
    \E r \in Req :
        \/ Request(r)
        \/ Validate(r)
        \/ Persist(r)
        \/ Transcode(r)
        \/ FfmpegExit(r)
        \/ TranscodeResume(r)
        \/ RunDemucs(r)
        \/ DemucsExit(r)
        \/ DemucsResume(r)
        \/ Cancel(r)

\* A child exits while its handler awaits it.
AwaitedFfmpegExit(r) == pc[r] = "await_ffmpeg" /\ FfmpegExit(r)

AwaitedDemucsExit(r) == pc[r] = "await_demucs" /\ DemucsExit(r)

\* The steps of a request up to the end of its handler: a child that a
\* cancelled handler left behind is not followed further.
NextToEnd ==
    \E r \in Req :
        \/ Request(r)
        \/ Validate(r)
        \/ Persist(r)
        \/ Transcode(r)
        \/ AwaitedFfmpegExit(r)
        \/ TranscodeResume(r)
        \/ RunDemucs(r)
        \/ AwaitedDemucsExit(r)
        \/ DemucsResume(r)
        \/ Cancel(r)

\* Every request in every environment, up to the end of its handler.
Spec == Init /\ [][NextToEnd]_vars

-----------------------------------------------------------------------------
(* Two requests in flight at once *)

ConcUploads == { << <<"song", "wav">> >>, << <<"clip", "webm">> >> }

ConcEnvs ==
    { e \in Envs : /\ e.DEMUCS_BIN = None /\ e.which_demucs # None
                   /\ ~e.venv_unix /\ ~e.venv_win
                   /\ e.FFMPEG_BIN = None /\ e.which_ffmpeg # None
                   /\ ~e.venv_ffmpeg }

\* Both requests have been received and their handlers are about to run.
InitConc ==
    /\ env \in ConcEnvs
    /\ reqs = Req
    /\ tmpfs = [t \in TmpNames |-> NoDir]
    /\ outside = {}
    /\ pc = [r \in Req |-> "entry"]
    /\ method = [r \in Req |-> "POST"]
    /\ file \in [Req -> ConcUploads]
    /\ ws = [r \in Req |-> None]
    /\ input_path = [r \in Req |-> << >>]
    /\ processed = [r \in Req |-> << >>]
    /\ ffmpeg = [r \in Req |-> NoProc]
    /\ demucs = [r \in Req |-> NoProc]
    /\ outcome = [r \in Req |-> NoOutcome]
    /\ log = [r \in Req |-> << >>]

NextConc ==
    \E r \in Req :
        \/ Validate(r)
        \/ Persist(r)
        \/ Transcode(r)
        \/ FfmpegExit(r)
        \/ TranscodeResume(r)
        \/ RunDemucs(r)
        \/ DemucsExit(r)
        \/ DemucsResume(r)

SpecConc == InitConc /\ [][NextConc]_vars

-----------------------------------------------------------------------------
(* Scheduling *)

\* A step of the handler's coroutine: the event loop runs a coroutine that
\* is ready (one whose awaited I/O or child has completed) to its next await.
HandlerStep(r) ==
    \/ Validate(r)
    \/ Persist(r)
    \/ Transcode(r)
    \/ TranscodeResume(r)
    \/ RunDemucs(r)
    \/ DemucsResume(r)

\* Nothing makes a child exit and nothing makes a caller disconnect: only the
\* handler's own steps are fair.
InitFair == Init /\ env \in ConcEnvs

\* Every step, those of the children of ended handlers included.
SpecOrphans == InitFair /\ [][Next]_vars

FairSpec ==
    /\ InitFair
    /\ [][Next]_vars
    /\ \A r \in Req : WF_vars(HandlerStep(r))

-----------------------------------------------------------------------------
(* Properties *)

Has(s, e) == \E i \in 1..Len(s) : s[i] = e

Range(s) == {s[i] : i \in 1..Len(s)}

Count(s, e) == Cardinality({i \in 1..Len(s) : s[i] = e})

Before(s, a, b) == \E i, j \in 1..Len(s) : i < j /\ s[i] = a /\ s[j] = b

\* The steps of a request, without the release of the Workspace and the reply.
Steps(r) ==
    SelectSeq(log[r], LAMBDA e : e \notin {"ws_delete", "ws_delete_failed", "respond"})

LastStep(r) == IF Steps(r) = << >> THEN "" ELSE Steps(r)[Len(Steps(r))]

Ended(r) == pc[r] \in {"done", "cancelled"}

\* The extension of the upload's base name, lower-cased ("" for none).
UploadExt(r) == Lower(Suffix(PathName(file[r])))

\* The base name of the upload without its extension.
UploadBase(r) == Stem(PathName(file[r]))

\* The directory the engine's output convention names for request r.
ExpectedStemDir(r) ==
    << <<"separated">>, <<DEMUCS_MODEL>>, Stem(Name(processed[r])) >>

\* C1: a request that acquired a Workspace has released it when its handler
\* has ended, whichever way it ended (archive, raised error, unexpected
\* exception, cancellation); a temporary directory exists only while the
\* request that made it is in flight.
C1_WorkspaceReleased ==
    /\ \A r \in Req :
         /\ Has(log[r], "ws_create") <=> ws[r] # None
         /\ Ended(r) /\ ws[r] # None =>
              ~tmpfs[ws[r]].exists /\ Count(log[r], "ws_delete") = 1
    /\ \A t \in TmpNames :
         tmpfs[t].exists => \E r \in Req : ws[r] = t /\ ~Ended(r)

\* C2: a completed POST request ends with an archive of at least one stem
\* entry or with an error, never with an empty archive; when the stem
\* directory holds none of the four stem files, packaging raises
\* PackagingError.
C2_ArchiveOrError ==
    /\ [](\A r \in Req :
            /\ pc[r] = "done" /\ method[r] = "POST" =>
                 \/ /\ outcome[r].kind = "archive"
                    /\ Len(outcome[r].entries) >= 1
                    /\ \A i \in 1..Len(outcome[r].entries) :
                         outcome[r].entries[i] \in StemNames
                 \/ /\ outcome[r].kind = "error"
                    /\ outcome[r].entries = << >>
            /\ outcome[r].kind = "archive" => outcome[r].entries # << >>)
    /\ [][\A r \in Req :
            /\ pc[r] = "await_demucs" /\ pc'[r] = "done"
            /\ Has(log'[r], "package")
            /\ DirEntries(tmpfs[ws[r]], ExpectedStemDir(r)) \cap StemNames = {}
            => outcome'[r] = HTTPError(500, "PackagingError")]_vars

C2_Witness ==
    \E r \in Req :
        /\ pc[r] = "done" /\ method[r] = "POST"
        /\ outcome[r] = HTTPError(500, "PackagingError")
        /\ Has(log[r], "package")

\* C3: while a child of a request runs, its handler is suspended at the await
\* for that child (or was cancelled there); the transcoder has exited before
\* the engine is spawned, the engine has exited before packaging, and the two
\* children never run at the same time.
C3_Sequential ==
    \A r \in Req :
        /\ ffmpeg[r].state = "running" =>
             pc[r] \in {"await_ffmpeg", "cancelled"} /\ demucs[r].state = "none"
        /\ demucs[r].state = "running" =>
             pc[r] \in {"await_demucs", "cancelled"} /\ ffmpeg[r].state # "running"
        /\ Has(log[r], "spawn_ffmpeg") /\ Has(log[r], "spawn_demucs") =>
             Before(log[r], "ffmpeg_exit", "spawn_demucs")
        /\ Has(log[r], "package") =>
             Before(log[r], "demucs_exit", "package") /\ demucs[r].state = "exited"

C3_Witness ==
    \E r \in Req :
        /\ Has(log[r], "spawn_ffmpeg") /\ Has(log[r], "spawn_demucs")
        /\ Has(log[r], "package")

\* C4: a POST without a file, or with an empty filename, ends with
\* InvalidRequestError (400) and no Workspace, no persisted byte and no child.
C4_MissingFileIs400 ==
    \A r \in Req :
        pc[r] = "done" /\ method[r] = "POST" /\ file[r] \in {NoFile, EmptyFilename} =>
            /\ outcome[r] = HTTPError(400, "InvalidRequestError")
            /\ ws[r] = None /\ log[r] = <<"respond">>
            /\ ffmpeg[r] = NoProc /\ demucs[r] = NoProc

\* C5: when the persisted upload's extension is not an accepted one and neither
\* an override nor a PATH match yields a transcoder, no child is ever spawned
\* for the request and it ends with ConfigurationError.
C5_NoTranscoder ==
    \A r \in Req :
        /\ file[r] # NoFile
        /\ UploadExt(r) \notin {"wav", "flac", "mp3", "m4a", "ogg"}
        /\ env.FFMPEG_BIN \in {None, ""} /\ env.which_ffmpeg = None
        => /\ ffmpeg[r] = NoProc /\ demucs[r] = NoProc
           /\ ~Has(log[r], "spawn_ffmpeg") /\ ~Has(log[r], "spawn_demucs")
           /\ pc[r] = "done" /\ Has(log[r], "persist") =>
                /\ outcome[r] = HTTPError(500, "ConfigurationError")
                /\ LastStep(r) = "resolve_ffmpeg"

C5_Witness ==
    \E r \in Req :
        /\ pc[r] = "done" /\ file[r] = << <<"clip", "webm">> >>
        /\ env.FFMPEG_BIN \in {None, ""} /\ env.which_ffmpeg = None
        /\ env.venv_ffmpeg
        /\ outcome[r] = HTTPError(500, "ConfigurationError")

\* C6: for a persisted upload with an accepted extension, whatever the
\* transcoder installation, the processed input is the input path itself, the
\* transcoder is neither resolved nor spawned, and when the engine is about to
\* be resolved the Workspace holds the uploaded file and nothing else.
C6_AcceptedPassThrough ==
    \A r \in Req :
        /\ Has(log[r], "persist")
        /\ UploadExt(r) \in {"wav", "flac", "mp3", "m4a", "ogg"}
        => /\ ~Has(log[r], "resolve_ffmpeg") /\ ~Has(log[r], "spawn_ffmpeg")
           /\ ffmpeg[r] = NoProc
           /\ pc[r] \in {"run_demucs", "await_demucs", "done"} =>
                processed[r] = input_path[r] /\ processed[r] = <<PathName(file[r])>>
           /\ pc[r] = "run_demucs" =>
                tmpfs[ws[r]] = [exists |-> TRUE, files |-> {PathName(file[r])},
                                deps |-> {}]

C6_Witness ==
    \E r \in Req :
        /\ pc[r] = "run_demucs" /\ file[r] = << <<"take", "MP3">> >>
        /\ Truthy(env.which_ffmpeg)
        /\ processed[r] = << <<"take", "MP3">> >>

\* C7: each step runs at most once per request; a request that ended with an
\* error ended at the step that failed, with that step's error, and no later
\* step ran; later steps run only after the earlier ones succeeded.
C7_NoRetryFirstFailureAborts ==
    \A r \in Req :
        /\ \A e \in {"ws_create", "persist", "resolve_ffmpeg", "spawn_ffmpeg",
                     "ffmpeg_exit", "resolve_demucs", "spawn_demucs", "demucs_exit",
                     "package", "ws_delete", "respond"} : Count(log[r], e) <= 1
        /\ pc[r] = "done" => log[r] # << >> /\ log[r][Len(log[r])] = "respond"
        /\ pc[r] = "done" /\ outcome[r].kind = "error" =>
             /\ outcome[r].error = "InvalidRequestError" =>
                  outcome[r].status = 400 /\ Steps(r) = << >>
             /\ outcome[r].error = "ConfigurationError" =>
                  LastStep(r) \in {"resolve_ffmpeg", "resolve_demucs"}
             /\ outcome[r].error = "TranscodeError" => LastStep(r) = "ffmpeg_exit"
             /\ outcome[r].error = "SeparationError" => LastStep(r) = "demucs_exit"
             /\ outcome[r].error = "PackagingError" => LastStep(r) = "package"
        /\ pc[r] = "done" /\ LastStep(r) = "ffmpeg_exit" =>
             outcome[r] = HTTPError(500, "TranscodeError")
        /\ pc[r] = "done" /\ LastStep(r) = "demucs_exit" =>
             outcome[r] = HTTPError(500, "SeparationError")
        /\ Has(log[r], "resolve_demucs") /\ Has(log[r], "spawn_ffmpeg") =>
             ffmpeg[r].rc = 0
        /\ Has(log[r], "package") => demucs[r].rc = 0

C7_Witness ==
    \E r \in Req :
        /\ pc[r] = "done" /\ outcome[r] = HTTPError(500, "SeparationError")
        /\ Count(log[r], "spawn_ffmpeg") = 1 /\ Count(log[r], "spawn_demucs") = 1

\* C8: when the handler resumes after the engine, a stem directory is handed
\* to packaging only if the engine exited with code 0 and the directory
\* separated/<model>/<input name without extension> exists; otherwise the
\* request ends with SeparationError and packaging does not run.
C8_SeparationChecked ==
    [][\A r \in Req :
         pc[r] = "await_demucs" /\ pc'[r] = "done" =>
            IF demucs[r].rc = 0 /\ DirExists(tmpfs[ws[r]], ExpectedStemDir(r))
            THEN Has(log'[r], "package")
            ELSE /\ outcome'[r] = HTTPError(500, "SeparationError")
                 /\ ~Has(log'[r], "package")]_vars

C8_Witness ==
    \E r \in Req :
        /\ pc[r] = "done" /\ demucs[r].rc = 0
        /\ outcome[r] = HTTPError(500, "SeparationError")

\* C9: when packaging runs over a stem directory in which the non-empty set P
\* of the four stem files is present, the archive returned has exactly the
\* entries of P, each once, in the order drums, bass, vocals, other; other
\* files of the directory are left out.
C9_ArchiveEntries ==
    [][\A r \in Req :
         LET present == DirEntries(tmpfs[ws[r]], ExpectedStemDir(r))
             P == {i \in 1..4 : <<STEMS[i], "wav">> \in present}
             got == outcome'[r].entries
         IN  /\ pc[r] = "await_demucs" /\ pc'[r] = "done"
             /\ Has(log'[r], "package") /\ P # {}
             => /\ outcome'[r].kind = "archive"
                /\ Len(got) = Cardinality(P)
                /\ \A i \in P : Has(got, <<STEMS[i], "wav">>)
                /\ \A i, j \in P :
                     i < j => Before(got, <<STEMS[i], "wav">>, <<STEMS[j], "wav">>)]_vars

C9_Witness ==
    \E r \in Req :
        /\ pc[r] = "done"
        /\ outcome[r].entries = << <<"drums", "wav">>, <<"vocals", "wav">> >>

\* C10: the binary a child is spawned from is the override when one is set,
\* whatever the PATH and the local installation hold, and the PATH match when
\* no override is set, whatever the local installation holds; resolution
\* yields the same for both kinds of binary.
C10_OverrideThenPath ==
    /\ env.DEMUCS_BIN \notin {None, ""} => resolve_demucs_bin(env) = env.DEMUCS_BIN
    /\ env.DEMUCS_BIN \in {None, ""} /\ env.which_demucs # None =>
         resolve_demucs_bin(env) = env.which_demucs
    /\ env.FFMPEG_BIN \notin {None, ""} => resolve_ffmpeg_bin(env) = env.FFMPEG_BIN
    /\ env.FFMPEG_BIN \in {None, ""} /\ env.which_ffmpeg # None =>
         resolve_ffmpeg_bin(env) = env.which_ffmpeg
    /\ \A r \in Req :
         /\ demucs[r].state # "none" /\ env.DEMUCS_BIN \notin {None, ""} =>
              demucs[r].bin = env.DEMUCS_BIN
         /\ demucs[r].state # "none" /\ env.DEMUCS_BIN \in {None, ""}
              /\ env.which_demucs # None => demucs[r].bin = env.which_demucs
         /\ ffmpeg[r].state # "none" /\ env.FFMPEG_BIN \notin {None, ""} =>
              ffmpeg[r].bin = env.FFMPEG_BIN
         /\ ffmpeg[r].state # "none" /\ env.FFMPEG_BIN \in {None, ""}
              /\ env.which_ffmpeg # None => ffmpeg[r].bin = env.which_ffmpeg

C10_Witness ==
    \E r \in Req :
        /\ demucs[r].state = "running" /\ ffmpeg[r].state = "exited"
        /\ env.DEMUCS_BIN = "/opt/demucs" /\ env.which_demucs # None
        /\ env.venv_unix /\ env.venv_win
        /\ demucs[r].bin = "/opt/demucs"
        /\ env.FFMPEG_BIN = "/opt/ffmpeg" /\ env.which_ffmpeg # None
        /\ env.venv_ffmpeg
        /\ ffmpeg[r].bin = "/opt/ffmpeg"

\* No candidate for the separation engine: no override, nothing on the PATH,
\* nothing in the local installation.
NoEngine ==
    /\ env.DEMUCS_BIN \in {None, ""} /\ env.which_demucs = None
    /\ ~env.venv_unix /\ ~env.venv_win

\* C11: when no candidate exists for the separation engine, no engine process
\* is ever spawned, no request ends with an archive, and a request that
\* reaches engine resolution ends with ConfigurationError (500), whether its
\* upload was transcoded or passed through.
C11_NoEngineIsConfigurationError ==
    NoEngine =>
        \A r \in Req :
            /\ demucs[r] = NoProc /\ ~Has(log[r], "spawn_demucs")
            /\ ~Has(log[r], "package")
            /\ outcome[r].kind # "archive"
            /\ pc[r] \notin {"await_demucs"}
            /\ pc[r] = "done" /\ Has(log[r], "resolve_demucs") =>
                 /\ outcome[r] = HTTPError(500, "ConfigurationError")
                 /\ LastStep(r) = "resolve_demucs"
            /\ pc[r] = "done" /\ method[r] = "POST" => outcome[r].kind = "error"

C11_Witness ==
    \E r \in Req :
        /\ NoEngine
        /\ pc[r] = "done" /\ file[r] = << <<"clip", "webm">> >>
        /\ Has(log[r], "ffmpeg_exit") /\ LastStep(r) = "resolve_demucs"
        /\ outcome[r] = HTTPError(500, "ConfigurationError")

\* C12: whatever the client's filename, the persist step writes inside the
\* request's Workspace only, to the direct child named by the base name of
\* the filename; nothing is written outside a Workspace.
C12_PersistInsideWorkspace ==
    /\ outside = {}
    /\ \A r \in Req :
         /\ ws[r] # None =>
              /\ Len(input_path[r]) <= 1
              /\ \A i \in 1..Len(input_path[r]) :
                   input_path[r][i] = PathName(file[r])
         /\ Has(log[r], "persist") =>
              /\ input_path[r] = <<PathName(file[r])>>
              /\ PathName(file[r]) \in {c \in Range(file[r]) :
                                          c \notin {<<"">>, <<"", "">>, DotDot}}
         /\ pc[r] = "transcode" =>
              tmpfs[ws[r]].files = {PathName(file[r])}

C12_Witness ==
    \E r \in Req :
        /\ file[r] = << DotDot, <<"up">>, <<"live", "set", "ogg">> >>
        /\ pc[r] = "transcode"
        /\ tmpfs[ws[r]].files = {<<"live", "set", "ogg">>}
        /\ outside = {}

\* The request, or one of its children, takes the step.
Acts(r) ==
    \/ pc'[r] # pc[r]
    \/ ffmpeg'[r] # ffmpeg[r]
    \/ demucs'[r] # demucs[r]

\* The response of a finished request as its own upload and what its own
\* children did determine it.
OwnOutcome(r) ==
    LET name == PathName(file[r])
        needs == Lower(Suffix(name)) \notin {"wav", "flac", "mp3", "m4a", "ogg"}
        given == IF needs THEN Append(Stem(name), "wav") ELSE name
        dirs == {d \in demucs[r].did :
                   d.path = << <<"separated">>, <<DEMUCS_MODEL>>, Stem(given) >>}
        present == UNION {d.entries : d \in dirs}
        stems == SelectSeq([i \in 1..4 |-> <<STEMS[i], "wav">>],
                           LAMBDA n : n \in present)
    IN  IF needs /\ (ffmpeg[r].rc # 0 \/ ffmpeg[r].did = {})
        THEN HTTPError(500, "TranscodeError")
        ELSE IF demucs[r].rc # 0 \/ dirs = {}
        THEN HTTPError(500, "SeparationError")
        ELSE IF stems = << >>
        THEN HTTPError(500, "PackagingError")
        ELSE [kind |-> "archive", status |-> 200, error |-> "", entries |-> stems,
              download |-> SubSeq(Stem(name), 1, Len(Stem(name)) - 1)
                             \o <<Stem(name)[Len(Stem(name))] \o "_stems", "zip">>,
              model |-> DEMUCS_MODEL]

\* C13: with two requests interleaved in any way, their Workspaces are
\* different directories, a directory changes only by a step of the request
\* that owns it (or of that request's child), and the response of each request
\* is the one its own upload and its own children determine, whatever the
\* other request does.  (A failure to read, write or start a process is an
\* event of the machine and is answered as such.)
C13_Isolation ==
    /\ [](\A r1, r2 \in Req :
            r1 # r2 /\ ws[r1] # None /\ ws[r2] # None => ws[r1] # ws[r2])
    /\ [][\A t \in TmpNames :
            tmpfs'[t] # tmpfs[t] =>
                \E r \in Req :
                    /\ ws'[r] = t /\ Acts(r)
                    /\ \A q \in Req \ {r} : ~Acts(q) /\ ws'[q] # t]_vars
    /\ [](\A r \in Req :
            pc[r] = "done" /\ outcome[r].error # "OSError" =>
                outcome[r] = OwnOutcome(r))

C13_Witness ==
    /\ file[1] = file[2] /\ file[1] = << <<"clip", "webm">> >>
    /\ ffmpeg[1].state = "running" /\ demucs[2].state = "running"
    /\ tmpfs[ws[1]].exists /\ tmpfs[ws[2]].exists

\* The stem files the engine of request r deposited under
\* <outputRoot>/<model>/<base>/, <base> being the upload's base name.
DepositedStems(r) ==
    UNION {d.entries \cap StemNames :
             d \in {x \in demucs[r].did :
                      x.path = << <<"separated">>, <<demucs[r].arg.model>>,
                                  UploadBase(r) >>}}

\* C14: a finished request whose upload <base>.<ext> has an accepted
\* extension and whose engine exited 0 having deposited a non-empty set S of
\* stem files under <outputRoot>/<model>/<base>/ answered with an archive
\* whose entries are exactly S (each once), named <base>_stems.zip, labelled
\* with the model name given to the engine; no transcoder was spawned.
C14_EndToEnd ==
    \A r \in Req :
        /\ pc[r] = "done" /\ UploadExt(r) \in {"wav", "flac", "mp3", "m4a", "ogg"}
        /\ demucs[r].state = "exited" /\ demucs[r].rc = 0
        /\ DepositedStems(r) # {}
        => /\ outcome[r].kind = "archive" /\ outcome[r].status = 200
           /\ Range(outcome[r].entries) = DepositedStems(r)
           /\ Len(outcome[r].entries) = Cardinality(DepositedStems(r))
           /\ outcome[r].download =
                SubSeq(UploadBase(r), 1, Len(UploadBase(r)) - 1)
                  \o <<UploadBase(r)[Len(UploadBase(r))] \o "_stems", "zip">>
           /\ outcome[r].model = demucs[r].arg.model
           /\ ffmpeg[r] = NoProc /\ ~Has(log[r], "spawn_ffmpeg")
           /\ ~Has(log[r], "resolve_ffmpeg")

C14_Witness ==
    \E r \in Req :
        /\ pc[r] = "done" /\ file[r] = << <<"song", "wav">> >>
        /\ demucs[r].rc = 0
        /\ DepositedStems(r) = {<<"drums", "wav">>, <<"other", "wav">>}
        /\ outcome[r].entries = << <<"drums", "wav">>, <<"other", "wav">> >>
        /\ outcome[r].download = <<"song_stems", "zip">>

\* Request r persisted an upload that needs transcoding, and a transcoder
\* resolves.
MustTranscode(r) ==
    /\ Has(log[r], "persist")
    /\ UploadExt(r) \notin {"wav", "flac", "mp3", "m4a", "ogg"}
    /\ resolve_ffmpeg_bin(env) \notin {None, ""}

\* C15: for a persisted upload whose extension is not accepted and a
\* transcoder that resolves, the transcoder is spawned once (never twice, and
\* once unless the operating system refuses to start it); the processed path
\* is <workspace>/<inputStem>.wav, different from the input path, and is set
\* only after the child exited 0 with that file written and present; a child
\* that exits non-zero or leaves no output ends the request with
\* TranscodeError before any separation engine is resolved or spawned.
C15_TranscodePath ==
    \A r \in Req :
        MustTranscode(r) =>
            /\ Count(log[r], "spawn_ffmpeg") <= 1
            /\ Has(log[r], "resolve_ffmpeg")
               /\ ~(pc[r] = "done" /\ outcome[r] = HTTPError(500, "OSError")
                      /\ LastStep(r) = "resolve_ffmpeg")
               => Count(log[r], "spawn_ffmpeg") = 1
            /\ processed[r] # << >> \/ Has(log[r], "resolve_demucs")
               \/ pc[r] \in {"run_demucs", "await_demucs"}
               => /\ processed[r] = << Append(UploadBase(r), "wav") >>
                  /\ processed[r] # input_path[r]
                  /\ Count(log[r], "spawn_ffmpeg") = 1
                  /\ ffmpeg[r].state = "exited" /\ ffmpeg[r].rc = 0
                  /\ ffmpeg[r].did = {Append(UploadBase(r), "wav")}
                  /\ pc[r] = "run_demucs" =>
                       Append(UploadBase(r), "wav") \in tmpfs[ws[r]].files
            /\ pc[r] = "done" /\ ffmpeg[r].state = "exited"
               /\ (ffmpeg[r].rc # 0 \/ ffmpeg[r].did = {})
               => /\ outcome[r] = HTTPError(500, "TranscodeError")
                  /\ LastStep(r) = "ffmpeg_exit"
                  /\ processed[r] = << >>
                  /\ demucs[r] = NoProc
                  /\ ~Has(log[r], "resolve_demucs") /\ ~Has(log[r], "spawn_demucs")
            /\ pc[r] = "done" /\ outcome[r].error = "TranscodeError"
               => ffmpeg[r].state = "exited"
                  /\ (ffmpeg[r].rc # 0 \/ ffmpeg[r].did = {})

C15_Witness ==
    \E r \in Req :
        /\ MustTranscode(r) /\ file[r] = << <<"clip", "webm">> >>
        /\ pc[r] = "done" /\ outcome[r].kind = "archive"
        /\ processed[r] = << <<"clip", "wav">> >>
        /\ ffmpeg[r].rc = 0 /\ Count(log[r], "spawn_ffmpeg") = 1

\* Request r ended at the resolution of binary kind k ("demucs", "ffmpeg")
\* with the binary reported absent.
ReportedAbsent(r, k) ==
    /\ pc[r] = "done" /\ LastStep(r) = "resolve_" \o k
    /\ outcome[r] = HTTPError(500, "ConfigurationError")

\* The first match of the three stages: override, search path, local
\* installation (None when a stage has nothing).
FirstOfThree(override, found, local) ==
    IF override \notin {None, ""} THEN override
    ELSE IF found \notin {None, ""} THEN found
    ELSE local

LocalDemucs ==
    IF env.venv_unix THEN VENV_UNIX ELSE IF env.venv_win THEN VENV_WIN ELSE None

\* C16: each kind of binary is resolved in three stages (override, search
\* path, local installation directory), stopping at the first match: a binary
\* found only in the local installation directory is the one used, and a
\* binary is reported absent only when all three stages find nothing.
C16_ThreeStagesEachKind ==
    \A r \in Req :
        /\ demucs[r].state # "none" =>
             demucs[r].bin = FirstOfThree(env.DEMUCS_BIN, env.which_demucs, LocalDemucs)
        /\ ReportedAbsent(r, "demucs") =>
             FirstOfThree(env.DEMUCS_BIN, env.which_demucs, LocalDemucs) = None
        /\ ReportedAbsent(r, "ffmpeg") =>
             /\ env.FFMPEG_BIN \in {None, ""} /\ env.which_ffmpeg = None
             /\ ~env.venv_ffmpeg

\* Every child request r spawned exits.
ChildrenExit(r) ==
    /\ (ffmpeg[r].state = "running") ~> (ffmpeg[r].state = "exited")
    /\ (demucs[r].state = "running") ~> (demucs[r].state = "exited")

\* C17: no timeout bounds a child.  A handler that returns (archive or error,
\* its Workspace deleted) does so only when every child it spawned has exited;
\* a handler whose transcoder or engine never exits waits for it forever and
\* never returns, unless the task is cancelled from outside; a request whose
\* children all exit ends.
C17_NoTimeout ==
    /\ [](\A r \in Req :
            pc[r] = "done" =>
                /\ ffmpeg[r].state # "running" /\ demucs[r].state # "running"
                /\ outcome[r].kind \in {"ack", "archive", "error"}
                /\ ws[r] # None => ~tmpfs[ws[r]].exists)
    /\ \A r \in Req :
         /\ <>[](ffmpeg[r].state = "running") =>
              <>[](pc[r] \in {"await_ffmpeg", "cancelled"})
         /\ <>[](demucs[r].state = "running") =>
              <>[](pc[r] \in {"await_demucs", "cancelled"})
         /\ ChildrenExit(r) => ((pc[r] = "entry") ~> Ended(r))

C17_Witness ==
    \E r \in Req :
        /\ pc[r] = "done" /\ outcome[r].kind = "archive"
        /\ ffmpeg[r].state = "exited" /\ demucs[r].state = "exited"
        /\ ~tmpfs[ws[r]].exists

ChildRunning(r) == ffmpeg[r].state = "running" \/ demucs[r].state = "running"

\* C18: the Workspace of a request is not deleted, and no deletion of it is
\* begun, as long as a child of the request is running, cancellation of the
\* handling task included.
C18_WorkspaceOutlivesChildren ==
    \A r \in Req :
        ChildRunning(r) =>
            /\ tmpfs[ws[r]].exists
            /\ ~Has(log[r], "ws_delete") /\ ~Has(log[r], "ws_delete_failed")

\* C19: for every upload with a non-empty filename, the path the upload is
\* persisted at, the path of the transcoded file (if any) and the separation
\* output root <workspace>/separated are pairwise different paths inside the
\* Workspace.
C19_PathsDistinct ==
    \A r \in Req :
        Has(log[r], "persist") =>
            /\ Len(input_path[r]) = 1
            /\ input_path[r] # <<OUTPUT_ROOT>>
            /\ ffmpeg[r].state # "none" =>
                 /\ ffmpeg[r].arg.output # input_path[r]
                 /\ ffmpeg[r].arg.output # <<OUTPUT_ROOT>>
            /\ demucs[r].state # "none" =>
                 /\ demucs[r].arg.out # demucs[r].arg.input
                 /\ demucs[r].arg.out # input_path[r]

====
